---- MODULE Spec2Model ----
(***************************************************************************)
(* A model of vispy.oogl's deferred texture object (oogl/texture.py) and   *)
(* of the shared enable counter and GLObject base class (oogl/__init__.py).*)
(*                                                                         *)
(* The state is the fields of each Texture object, the module-level        *)
(* ENABLE_QUEUE, and the part of the GL driver's state the code reads back *)
(* (the names glIsTexture accepts).  Every public operation of a texture   *)
(* is one action.  The driver calls an operation issues are recorded, in   *)
(* order, in last.calls.                                                   *)
(*                                                                         *)
(* Python values are encoded as follows: None for a shape, an offset, a    *)
(* contrast-limit pair or the pending description is the empty tuple <<>>  *)
(* (all of these are falsy in Python as well, and no accepted value of     *)
(* them is empty); None for a format is the string "None"; a dict of       *)
(* texture parameters is a function that maps absent keys to "unset".      *)
(***************************************************************************)
EXTENDS Integers, Sequences, FiniteSets, TLC

VARIABLES
    target,          \* _RawTexture._target, per texture (fixed at construction)
    handle,          \* GLObject._handle: 0 uninitialized, < 0 error
    unit,            \* _RawTexture._unit
    pending_data,    \* Texture._pending_data: <<>> or <<description>>
    texture_shape,   \* Texture._texture_shape: <<>> or a shape
    texture_params,  \* Texture._texture_params
    pending_params,  \* Texture._pending_params
    ENABLE_QUEUE,    \* oogl.ENABLE_QUEUE, per capability (= target)
    glTextures,      \* driver: the names glIsTexture answers true for
    glDeleted,       \* driver: the names glDeleteTextures has been given
    nextName,        \* driver: the next name glGenTextures hands out
    active,          \* textures inside a `with` block (entered, not yet exited)
    last,            \* the last operation: its texture, outcome and driver calls
    phase,           \* history: shape of the run of activations/deactivations
    nEnable,         \* history: glEnable calls since the run started
    nDisable,        \* history: glDisable calls since the run started
    capFailed,       \* history: textures errored by a capability failure and
                     \* not given a set_data / set_storage call since
    consumed,        \* history: <<>> or <<the storage description an
                     \* activation consumed>>, while it is the current one
    glStorage,       \* driver: per texture and level, the size of the image
                     \* allocated on its current handle (<<>>: none)
    glParams,        \* driver: per texture, the parameters its current
                     \* handle was sent
    call             \* a call of a utility function: its arguments and,
                     \* once it returned or raised, its result

vars == <<target, handle, unit, pending_data, texture_shape, texture_params,
          pending_params, ENABLE_QUEUE, glTextures, glDeleted, nextName,
          active, last, phase, nEnable, nDisable, capFailed, consumed,
          glStorage, glParams, call>>

-----------------------------------------------------------------------------
(* Bounds of the model *)

\* Number of texture objects in the shared-counter specification.
NumTex == 2
\* Names glGenTextures can hand out before the model stops creating.
MaxName == 2
\* Largest mipmap level offered to set_data / set_storage.
MaxLevel == 1

Tex == 1..NumTex
\* The single texture of the detailed specification.
MainTex == {1}

-----------------------------------------------------------------------------
(* Constants of the program *)

T2D == "GL_TEXTURE_2D"
T3D == "GL_TEXTURE_3D"
Targets == {T2D, T3D}

\* MAP.get(self._target, 0) in set_data / set_storage
Ndim(tg) == IF tg = T2D THEN 2 ELSE IF tg = T3D THEN 3 ELSE 0

\* The formats set_data / set_storage accept (None is "None").
Formats == {"None", "GL_RGB", "GL_RGBA", "GL_LUMINANCE", "GL_LUMINANCE_ALPHA",
            "GL_ALPHA"}

\* Texture parameters and the order in which the model replays a dict.
ParamOrder == <<"GL_TEXTURE_MIN_FILTER", "GL_TEXTURE_MAG_FILTER", "GL_TEXTURE_WRAP_S">>
Params == {ParamOrder[i] : i \in 1..Len(ParamOrder)}
NoParams == [p \in Params |-> "unset"]

\* The state of the two dicts after Texture.__init__ has set the defaults.
DefaultParams == [p \in Params |->
    IF p \in {"GL_TEXTURE_MIN_FILTER", "GL_TEXTURE_MAG_FILTER"}
    THEN "GL_LINEAR" ELSE "unset"]

-----------------------------------------------------------------------------
(* Small helpers on tuples *)

Take(s, n) == SubSeq(s, 1, IF n < Len(s) THEN n ELSE Len(s))
Zeros(n) == [i \in 1..n |-> 0]
Call(f, a) == [f |-> f, a |-> a]
HasCall(cs, f) == \E i \in 1..Len(cs) : cs[i].f = f
CountCall(cs, f) == Cardinality({i \in 1..Len(cs) : cs[i].f = f})

-----------------------------------------------------------------------------
(* Utility functions of texture.py *)

RECURSIVE Pow2(_)
Pow2(n) == IF n <= 0 THEN 1 ELSE 2 * Pow2(n - 1)

\* A numpy dtype is [kind, bits]; its name is the kind followed by the bits
\* ("uint8", "float32", "int16", "complex64"), except "bool".
DT(k, b) == [kind |-> k, bits |-> b]
Uint8 == DT("uint", 8)
Float16 == DT("float", 16)
Float32 == DT("float", 32)

\* DTYPES: the element kinds the raw texture uploads directly.
DTYPES == {Uint8, Float16, Float32}

\* A get_format that looks at the last size only, whatever the rank is.
get_format_by_last(shape, tg) ==
    LET c == IF shape = <<>> THEN 0 ELSE shape[Len(shape)] IN
    IF shape = <<>> THEN "TypeError"
    ELSE IF tg \notin {T2D, T3D} THEN "ValueError"
    ELSE IF c = 1 THEN "GL_LUMINANCE"
    ELSE IF c = 2 THEN "GL_LUMINANCE_ALPHA"
    ELSE IF c = 3 THEN "GL_RGB"
    ELSE IF c = 4 THEN "GL_RGBA"
    ELSE "ValueError"

\* get_format(shape, target): the format, or the exception it raises.
\* len(None) raises TypeError.
get_format(shape, tg) ==
    LET n == Len(shape) IN
    IF shape = <<>> THEN "TypeError"
    ELSE IF tg = T2D THEN
        IF n = 2 THEN "GL_LUMINANCE"
        ELSE IF n = 3 /\ shape[3] = 1 THEN "GL_LUMINANCE"
        ELSE IF n = 3 /\ shape[3] = 2 THEN "GL_LUMINANCE_ALPHA"
        ELSE IF n = 3 /\ shape[3] = 3 THEN "GL_RGB"
        ELSE IF n = 3 /\ shape[3] = 4 THEN "GL_RGBA"
        ELSE "ValueError"
    ELSE IF tg = T3D THEN
        IF n = 3 THEN "GL_LUMINANCE"
        ELSE IF n = 4 /\ shape[4] = 1 THEN "GL_LUMINANCE"
        ELSE IF n = 4 /\ shape[4] = 2 THEN "GL_LUMINANCE_ALPHA"
        ELSE IF n = 4 /\ shape[4] = 3 THEN "GL_RGB"
        ELSE IF n = 4 /\ shape[4] = 4 THEN "GL_RGBA"
        ELSE "ValueError"
    ELSE "ValueError"

IsError(x) == x \in {"TypeError", "ValueError", "RuntimeError", "AssertionError",
                     "ZeroDivisionError"}

\* convert_data, lines 580-582 and 587-589: the limits derived from the bit
\* width of a signed and of an unsigned integer kind (max = 2**bits;
\* -max//2, max//2-1 and 0, max//2).
IntLimits(bits) == <<(-Pow2(bits)) \div 2, (Pow2(bits) \div 2) - 1>>
UintLimitsFull(bits) == <<0, Pow2(bits) - 1>>
UintLimits(bits) == <<0, Pow2(bits) \div 2>>

\* The result of convert_data: the exception raised, the element kind and
\* the contrast limits in force, the operations applied to the elements in
\* order, and whether `data` is an array made by the function (astype, copy)
\* or still the caller's.
Converted(raised, dtype, clim, ops, own) ==
    [raised |-> raised, dtype |-> dtype, clim |-> clim, ops |-> ops, own |-> own]

\* convert_data, lines 551-592: the first stage, or the error raised for an
\* unrecognized kind.
convert_prepare_casts(d, clim, F32, F16) ==
    IF d.kind = "bool" THEN Converted("none", Uint8, <<>>, <<"astype">>, TRUE)
    ELSE IF d = Uint8 THEN Converted("none", Float32, clim, <<"astype">>, TRUE)
    ELSE IF d = Float16 \/ d = Float32 THEN
        IF clim # <<>> \/ ~(IF d = Float16 THEN F16 ELSE F32)
        THEN Converted("none", d, clim, <<"copy">>, TRUE)
        ELSE Converted("none", d, clim, <<>>, FALSE)
    ELSE IF d.kind = "float" THEN Converted("none", Float32, clim, <<"astype">>, TRUE)
    ELSE IF d.kind = "int" THEN
        Converted("none", Float32, IF clim = <<>> THEN IntLimits(d.bits) ELSE clim,
                  <<"astype">>, TRUE)
    ELSE IF d.kind = "uint" THEN
        Converted("none", Float32, IF clim = <<>> THEN UintLimits(d.bits) ELSE clim,
                  <<"astype">>, TRUE)
    ELSE Converted("RuntimeError", d, clim, <<>>, FALSE)
convert_prepare(d, clim, F32, F16) ==
    IF d.kind = "bool" THEN Converted("none", Uint8, <<>>, <<"astype">>, TRUE)
    ELSE IF d = Uint8 THEN
        IF clim # <<>> THEN Converted("none", Float32, clim, <<"astype">>, TRUE)
        ELSE Converted("none", Uint8, clim, <<>>, FALSE)
    ELSE IF d = Float16 \/ d = Float32 THEN
        IF clim # <<>> \/ ~(IF d = Float16 THEN F16 ELSE F32)
        THEN Converted("none", d, clim, <<"copy">>, TRUE)
        ELSE Converted("none", d, clim, <<>>, FALSE)
    ELSE IF d.kind = "float" THEN Converted("none", Float32, clim, <<"astype">>, TRUE)
    ELSE IF d.kind = "int" THEN
        Converted("none", Float32, IF clim = <<>> THEN IntLimits(d.bits) ELSE clim,
                  <<"astype">>, TRUE)
    ELSE IF d.kind = "uint" THEN
        Converted("none", Float32, IF clim = <<>> THEN UintLimits(d.bits) ELSE clim,
                  <<"astype">>, TRUE)
    ELSE Converted("RuntimeError", d, clim, <<>>, FALSE)

\* convert_data, lines 594-601: the limits applied in place (data -= min
\* unless min is 0; data *= 1.0 / (max - min) unless max - min is 1).
apply_clim(p) ==
    IF p.clim = <<>> THEN p
    ELSE IF Len(p.clim) # 2 THEN [p EXCEPT !.raised = "AssertionError"]
    ELSE LET q == IF p.clim[1] # 0 THEN [p EXCEPT !.ops = Append(@, "sub")] ELSE p
         IN  IF p.clim[2] - p.clim[1] = 1 THEN q
             ELSE IF p.clim[2] - p.clim[1] = 0
                 THEN [q EXCEPT !.raised = "ZeroDivisionError"]
             ELSE [q EXCEPT !.ops = Append(@, "mul")]

\* convert_data, lines 607-620: the final choice of an uploadable element
\* kind (data *= 256.0, clipped, astype(uint8) when the float kind is not
\* supported).
convert_final(p, F32, F16) ==
    IF p.raised # "none" THEN p
    ELSE IF p.dtype = Uint8 THEN p
    ELSE IF p.dtype = Float16 /\ F16 THEN p
    ELSE IF p.dtype = Float32 /\ F32 THEN p
    ELSE IF p.dtype \in {Float16, Float32}
        THEN [p EXCEPT !.dtype = Uint8, !.ops = @ \o <<"x256", "clip", "astype">>,
                       !.own = TRUE]
    ELSE [p EXCEPT !.raised = "RuntimeError"]

\* convert_data(data, clim) under the answers of ext_available.
convert_data(d, clim, F32, F16) ==
    LET p == convert_prepare(d, clim, F32, F16) IN
    IF p.raised # "none" THEN p ELSE convert_final(apply_clim(p), F32, F16)

\* Whether the operations of a conversion wrote into the caller's array: an
\* in-place operation applied before any astype or copy.
ModifiesInput(r) ==
    \E i \in 1..Len(r.ops) :
        /\ r.ops[i] \in {"sub", "mul", "x256", "clip"}
        /\ \A j \in 1..(i - 1) : r.ops[j] \notin {"astype", "copy"}

\* _RawTexture._get_alignment(width): the first of 4, 8, 2, 1 dividing width.
get_alignment(width) ==
    IF width % 4 = 0 THEN 4
    ELSE IF width % 8 = 0 THEN 8
    ELSE IF width % 2 = 0 THEN 2
    ELSE 1

\* The calls of a dict of parameters sent to the driver, one per entry.
ParamCalls(m) ==
    LET set == SelectSeq(ParamOrder, LAMBDA p : m[p] # "unset") IN
    [i \in 1..Len(set) |-> Call("glTexParameter", <<set[i], m[set[i]]>>)]


-----------------------------------------------------------------------------
(* Bookkeeping operations of Texture *)

\* The record of the last operation.
\* reset tells whether the operation found the texture errored and reset it.
Last(op, t, raised, path, calls) ==
    [op |-> op, tex |-> t, raised |-> raised, path |-> path, calls |-> calls,
     reset |-> FALSE]

\* The tuple stored in Texture._pending_data.
Pending(hasData, d, shape, offset, level, format, clim) ==
    [hasData |-> hasData, dtype |-> d, shape |-> shape, offset |-> offset,
     level |-> level, format |-> format, clim |-> clim]
NoData == DT("none", 0)

\* The arguments of one set_storage call.
StorageArgs(sh, lv, fm) == [shape |-> sh, level |-> lv, format |-> fm]

\* "Reset if there was an error earlier": the first statement of set_data and
\* of set_storage.
ResetHandle(h) == IF h < 0 THEN 0 ELSE h
ResetShapeKeeps(h, ts) == ts
ResetShape(h, ts) == IF h < 0 THEN <<>> ELSE ts

\* Texture.__call__(unit)
CallUnit(t, u) ==
    /\ unit' = [unit EXCEPT ![t] = u]
    /\ last' = Last("call", t, "none", "recorded", <<>>)
    /\ UNCHANGED <<target, handle, pending_data, texture_shape, texture_params,
                   pending_params, ENABLE_QUEUE, glTextures, glDeleted, nextName,
                   active, phase, nEnable, nDisable, capFailed, consumed,
                   glStorage, glParams, call>>

\* A set_parameter that sends the parameter to the driver at once instead of
\* recording it.
SetParameterEager(t, param, value) ==
    /\ pending_params' = [pending_params EXCEPT ![t][param] = value]
    /\ texture_params' = [texture_params EXCEPT ![t][param] = value]
    /\ last' = Last("set_parameter", t, "none", "recorded",
                    <<Call("glTexParameter", <<param, value>>)>>)
    /\ UNCHANGED <<target, handle, unit, pending_data, texture_shape,
                   ENABLE_QUEUE, glTextures, glDeleted, nextName, active,
                   phase, nEnable, nDisable, capFailed, consumed,
                   glStorage, glParams, call>>

\* Texture.set_parameter(param, value), param given as the GL constant.
SetParameter(t, param, value) ==
    /\ pending_params' = [pending_params EXCEPT ![t][param] = value]
    /\ texture_params' = [texture_params EXCEPT ![t][param] = value]
    /\ last' = Last("set_parameter", t, "none", "recorded", <<>>)
    /\ UNCHANGED <<target, handle, unit, pending_data, texture_shape,
                   ENABLE_QUEUE, glTextures, glDeleted, nextName, active,
                   phase, nEnable, nDisable, capFailed, consumed,
                   glStorage, glParams, call>>

\* set_data: the offset stored, after the "Check offset" block.
SetDataOffset(offset, shape, ts, h, ndim) ==
    IF offset # <<>> THEN offset
    ELSE IF shape = ts /\ h > 0 THEN Zeros(Len(Take(ts, ndim)))
    ELSE <<>>

\* set_data: whether one of its assertions fails.
SetDataRejects(shape, offset, level, format, clim, ndim) ==
    \/ Len(shape) \notin {ndim, ndim + 1}
    \/ offset # <<>> /\ Len(offset) # Len(Take(shape, ndim))
    \/ level < 0
    \/ format \notin Formats
    \/ ~(clim = <<>> \/ Len(clim) = 2)

\* The fields of the texture after set_data(data, offset, level, format, clim),
\* data being an array of element kind d and the given shape.
SetDataResult(t, d, shape, offset, level, format, clim) ==
    LET h1 == ResetHandle(handle[t])
        ts1 == ResetShape(handle[t], texture_shape[t])
        ndim == Ndim(target[t])
        off1 == SetDataOffset(offset, shape, ts1, h1, ndim)
    IN  IF SetDataRejects(shape, offset, level, format, clim, ndim)
        THEN [handle |-> h1, shape |-> ts1, pending |-> pending_data[t],
              raised |-> "AssertionError", path |-> "rejected"]
        ELSE [handle |-> h1, shape |-> shape,
              pending |-> <<Pending(TRUE, d, shape, off1, level, format, clim)>>,
              raised |-> "none",
              path |-> IF offset = <<>> /\ off1 # <<>> THEN "fast" ELSE "recorded"]

\* Texture.set_data
SetData(t, d, shape, offset, level, format, clim) ==
    LET r == SetDataResult(t, d, shape, offset, level, format, clim) IN
    /\ handle' = [handle EXCEPT ![t] = r.handle]
    /\ texture_shape' = [texture_shape EXCEPT ![t] = r.shape]
    /\ pending_data' = [pending_data EXCEPT ![t] = r.pending]
    /\ last' = [Last("set_data", t, r.raised, r.path, <<>>)
                 EXCEPT !.reset = handle[t] < 0]
    /\ capFailed' = capFailed \ {t}
    /\ consumed' = [consumed EXCEPT ![t] = <<>>]
    /\ UNCHANGED <<target, unit, texture_params, pending_params, ENABLE_QUEUE,
                   glTextures, glDeleted, nextName, active, phase, nEnable,
                   nDisable, glStorage, glParams, call>>

\* A set_storage without the "Is this already my shape?" shortcut.
SetStorageAlwaysRecords(shape, level, format, ts, ndim) == FALSE

\* set_storage: "Is this already my shape?"
SetStorageIsNoop(shape, level, format, ts, ndim) ==
    /\ format = "None"
    /\ level = 0
    /\ ts # <<>>
    /\ Take(ts, ndim) = Take(shape, ndim)

\* set_storage: whether one of its assertions fails.
SetStorageRejects(shape, level, format, ndim) ==
    \/ Len(shape) \notin {ndim, ndim + 1}
    \/ \E i \in 1..Len(shape) : shape[i] <= 0
    \/ level < 0
    \/ format \notin Formats

\* The fields of the texture after set_storage(shape, level, format).
SetStorageResult(t, shape, level, format) ==
    LET h1 == ResetHandle(handle[t])
        ts1 == ResetShape(handle[t], texture_shape[t])
        ndim == Ndim(target[t])
    IN  IF SetStorageIsNoop(shape, level, format, ts1, ndim)
        THEN [handle |-> h1, shape |-> ts1, pending |-> pending_data[t],
              raised |-> "none", path |-> "noop"]
        ELSE IF SetStorageRejects(shape, level, format, ndim)
        THEN [handle |-> h1, shape |-> ts1, pending |-> pending_data[t],
              raised |-> "AssertionError", path |-> "rejected"]
        ELSE [handle |-> h1, shape |-> shape,
              pending |-> <<Pending(FALSE, NoData, <<>>, <<>>, level, format, <<>>)>>,
              raised |-> "none", path |-> "recorded"]

\* Texture.set_storage
SetStorage(t, shape, level, format) ==
    LET r == SetStorageResult(t, shape, level, format) IN
    /\ handle' = [handle EXCEPT ![t] = r.handle]
    /\ texture_shape' = [texture_shape EXCEPT ![t] = r.shape]
    /\ pending_data' = [pending_data EXCEPT ![t] = r.pending]
    /\ last' = [Last("set_storage", t, r.raised, r.path, <<>>)
                 EXCEPT !.reset = handle[t] < 0]
    /\ capFailed' = capFailed \ {t}
    /\ consumed' = [consumed EXCEPT ![t] = IF r.path = "noop" THEN @ ELSE <<>>]
    /\ UNCHANGED <<target, unit, texture_params, pending_params, ENABLE_QUEUE,
                   glTextures, glDeleted, nextName, active, phase, nEnable,
                   nDisable, glStorage, glParams, call>>


-----------------------------------------------------------------------------
(* The driver and the operations that call it *)

\* gl.glIsTexture(h)
glIsTexture(glT, h) == h \in glT

\* A delete() that calls the driver whatever the handle is.
DeleteCallsAlways(h) == <<Call("glDeleteTextures", h)>>

\* GLObject.delete(): the driver call it issues.  The handle is passed to
\* glDeleteTextures only if it is positive; an exception of the driver
\* (delOk = FALSE) is swallowed.  The program never asks the driver about a
\* name again once it has passed it to glDeleteTextures, so the name is
\* dropped from glTextures whether or not the driver raised.
DeleteCalls(h) == IF h > 0 THEN <<Call("glDeleteTextures", h)>> ELSE <<>>
DeleteNames(glT, h, delOk) == IF h > 0 THEN glT \ {h} ELSE glT
DeleteLog(glD, h) == IF h > 0 THEN glD \cup {h} ELSE glD

\* What the driver holds for the texture object of one handle: the image
\* size per level and the parameters.  A new name has neither.
NoStorage == [lv \in 0..MaxLevel |-> <<>>]
Held(storage, params) == [storage |-> storage, params |-> params]

\* The driver's state for the bound texture after the calls cs, issued in
\* order for a texture of rank ndim: glGenTextures and glDeleteTextures
\* leave a name without image and parameters, glTexImage2D/3D sets the size
\* of one level, glTexParameter one parameter.
RECURSIVE DriverAfter(_, _, _)
DriverAfter(cs, held, ndim) ==
    IF cs = <<>> THEN held
    ELSE LET c == Head(cs)
             next == IF c.f \in {"glGenTextures", "glDeleteTextures"}
                         THEN Held(NoStorage, NoParams)
                     ELSE IF c.f = "glTexImage"
                         THEN [held EXCEPT !.storage[c.a.level] = Take(c.a.shape, ndim)]
                     ELSE IF c.f = "glTexParameter"
                         THEN [held EXCEPT !.params[c.a[1]] = c.a[2]]
                     ELSE held
         IN  DriverAfter(Tail(cs), next, ndim)

\* GLObject.delete()
Delete(t, delOk) ==
    /\ handle' = [handle EXCEPT ![t] = 0]
    /\ glTextures' = DeleteNames(glTextures, handle[t], delOk)
    /\ glDeleted' = DeleteLog(glDeleted, handle[t])
    /\ last' = Last("delete", t, "none",
                    IF handle[t] > 0 THEN (IF delOk THEN "deleted" ELSE "swallowed")
                    ELSE "nothing",
                    DeleteCalls(handle[t]))
    /\ glStorage' = [glStorage EXCEPT ![t] = NoStorage]
    /\ glParams' = [glParams EXCEPT ![t] = NoParams]
    /\ UNCHANGED <<target, unit, pending_data, texture_shape, texture_params,
                   pending_params, ENABLE_QUEUE, nextName, active, phase,
                   nEnable, nDisable, capFailed, consumed, call>>

\* _RawTexture._upload: the transfer and the unpack alignment around it.
UploadCalls(shape, format, level) ==
    LET a == get_alignment(shape[Len(shape)])
        img == Call("glTexImage", [data |-> TRUE, shape |-> shape,
                                   format |-> format, level |-> level])
    IN  IF a # 4
        THEN <<Call("glPixelStorei", a), img, Call("glPixelStorei", 4)>>
        ELSE <<img>>

\* _RawTexture._allocate
AllocateCalls(shape, format, level, ndim) ==
    <<Call("glTexImage", [data |-> FALSE, shape |-> Take(shape, ndim),
                          format |-> format, level |-> level])>>

\* _RawTexture._update
UpdateCalls(shape, offset, format, level) ==
    <<Call("glTexSubImage", [shape |-> shape, offset |-> offset,
                             format |-> format, level |-> level])>>

\* The state an activation works on and hands from step to step.
Work(h, pp, glT, glD, next, raised, path, calls) ==
    [handle |-> h, pparams |-> pp, glT |-> glT, glD |-> glD, next |-> next,
     raised |-> raised, path |-> path, calls |-> calls]

\* _process_pending_data, the `if offset:` branch (lines 438-443).
ProcessUpdate(t, p, w, format) ==
    LET bind == <<Call("glBindTexture", w.handle)>> IN
    IF w.handle <= 0
    THEN [w EXCEPT !.raised = "ValueError", !.path = "update_error",
                   !.calls = bind]
    ELSE IF ~glIsTexture(w.glT, w.handle)
    THEN [w EXCEPT !.raised = "ValueError", !.path = "update_error",
                   !.calls = bind \o <<Call("glIsTexture", w.handle)>>]
    ELSE [w EXCEPT !.path = "update",
                   !.calls = bind \o <<Call("glIsTexture", w.handle)>>
                             \o UpdateCalls(p.shape, p.offset, format, p.level)]

\* _process_pending_data, the else branch (lines 445-462): delete, create,
\* bind, upload or allocate, replay of all parameters.
ProcessUpload(t, p, w, shape, format, genOk, delOk) ==
    LET name == IF genOk THEN w.next ELSE 0
        glT1 == DeleteNames(w.glT, w.handle, delOk)
        head == DeleteCalls(w.handle)
                \o <<Call("glGenTextures", name), Call("glBindTexture", name)>>
        w1 == [w EXCEPT !.handle = name,
                        !.glT = IF genOk THEN glT1 \cup {name} ELSE glT1,
                        !.glD = DeleteLog(w.glD, w.handle),
                        !.next = IF genOk THEN w.next + 1 ELSE w.next]
    IN  IF ~p.hasData /\ shape = <<>>
        THEN [w1 EXCEPT !.raised = "TypeError", !.path = "alloc_error",
                        !.calls = head]
        ELSE [w1 EXCEPT
                !.path = IF p.hasData THEN "upload" ELSE "alloc",
                !.pparams = NoParams,
                !.calls = head
                    \o (IF p.hasData
                        THEN UploadCalls(shape, format, p.level)
                        ELSE AllocateCalls(shape, format, p.level, Ndim(target[t])))
                    \o ParamCalls(texture_params[t])]

\* A _process_pending_data that ignores the offset and always re-uploads.
ProcessPendingReuploads(t, p, w, F32, F16, genOk, delOk) ==
    LET conv == IF p.hasData THEN convert_data(p.dtype, p.clim, F32, F16)
                ELSE [raised |-> "none", dtype |-> NoData, clim |-> <<>>]
        shape == IF p.hasData THEN p.shape ELSE texture_shape[t]
        format == IF p.format = "None" THEN get_format(shape, target[t])
                  ELSE p.format
    IN  IF conv.raised # "none"
        THEN [w EXCEPT !.raised = conv.raised, !.path = "convert_error"]
        ELSE IF IsError(format)
        THEN [w EXCEPT !.raised = format, !.path = "format_error"]
        ELSE ProcessUpload(t, p, w, shape, format, genOk, delOk)

\* Texture._process_pending_data(data, offset, level, format, clim)
ProcessPending(t, p, w, F32, F16, genOk, delOk) ==
    LET conv == IF p.hasData THEN convert_data(p.dtype, p.clim, F32, F16)
                ELSE [raised |-> "none", dtype |-> NoData, clim |-> <<>>]
        shape == IF p.hasData THEN p.shape ELSE texture_shape[t]
        format == IF p.format = "None" THEN get_format(shape, target[t])
                  ELSE p.format
    IN  IF conv.raised # "none"
        THEN [w EXCEPT !.raised = conv.raised, !.path = "convert_error"]
        ELSE IF IsError(format)
        THEN [w EXCEPT !.raised = format, !.path = "format_error"]
        ELSE IF p.offset # <<>>
        THEN ProcessUpdate(t, p, w, format)
        ELSE ProcessUpload(t, p, w, shape, format, genOk, delOk)

\* push_enable(enum): the driver call and the new counter.
PushCalls(cur) == IF cur = 0 THEN <<Call("glEnable", 0)>> ELSE <<>>
PushCount(cur) == cur + 1

\* pop_enable(enum)
PopCalls(cur) == IF cur = 1 THEN <<Call("glDisable", 0)>> ELSE <<>>
PopCount(cur) == IF cur - 1 > 0 THEN cur - 1 ELSE 0

\* _RawTexture._enable: push_enable, select the unit, bind.
RawEnableCalls(cur, u, h) ==
    PushCalls(cur)
    \o (IF u >= 0 THEN <<Call("glActiveTexture", u)>> ELSE <<>>)
    \o <<Call("glBindTexture", h)>>

\* An _enable that binds a valid texture without sending the pending
\* parameters.
EnableTailNoFlush(t, w, cur) ==
    IF w.handle = 0 THEN [w |-> [w EXCEPT !.path = IF w.path = "none" THEN "nodata" ELSE w.path],
                          pushed |-> FALSE]
    ELSE IF ~glIsTexture(w.glT, w.handle)
    THEN [w |-> [w EXCEPT !.raised = "RuntimeError", !.path = "stale",
                          !.calls = w.calls \o <<Call("glIsTexture", w.handle)>>],
          pushed |-> FALSE]
    ELSE [w |-> [w EXCEPT
                   !.path = IF w.path = "none" THEN "bound" ELSE w.path,
                   !.calls = w.calls \o <<Call("glIsTexture", w.handle)>>
                             \o RawEnableCalls(cur, unit[t], w.handle)],
          pushed |-> TRUE]

\* Texture._enable from "Is the texture valid?" (line 404) to its end.
\* pushed tells whether push_enable was reached.
EnableTail(t, w, cur) ==
    IF w.handle = 0 THEN [w |-> [w EXCEPT !.path = IF w.path = "none" THEN "nodata" ELSE w.path],
                          pushed |-> FALSE]
    ELSE IF ~glIsTexture(w.glT, w.handle)
    THEN [w |-> [w EXCEPT !.raised = "RuntimeError", !.path = "stale",
                          !.calls = w.calls \o <<Call("glIsTexture", w.handle)>>],
          pushed |-> FALSE]
    ELSE [w |-> [w EXCEPT
                   !.path = IF w.path = "none" THEN "bound" ELSE w.path,
                   !.pparams = NoParams,
                   !.calls = w.calls \o <<Call("glIsTexture", w.handle)>>
                             \o RawEnableCalls(cur, unit[t], w.handle)
                             \o ParamCalls(w.pparams)],
          pushed |-> TRUE]

\* An _enable that raises when the handle is not valid after the pending
\* description was processed, instead of marking the texture errored.
AfterPendingRaises(t, w1, cur) ==
    IF w1.raised # "none"
    THEN [w |-> w1, pushed |-> FALSE]
    ELSE IF ~glIsTexture(w1.glT, w1.handle)
    THEN [w |-> [w1 EXCEPT !.raised = "RuntimeError",
                           !.path = "invalid",
                           !.calls = w1.calls \o <<Call("glIsTexture", w1.handle)>>],
          pushed |-> FALSE]
    ELSE EnableTail(t, [w1 EXCEPT !.calls = w1.calls \o <<Call("glIsTexture", w1.handle)>>], cur)

\* Texture._enable, lines 398-402 and on: after the pending description
\* was processed into w1, "If not ok, warn (one time)".
AfterPending(t, w1, cur) ==
    IF w1.raised # "none"
    THEN [w |-> w1, pushed |-> FALSE]
    ELSE IF ~glIsTexture(w1.glT, w1.handle)
    THEN [w |-> [w1 EXCEPT !.handle = -1,
                           !.path = "invalid",
                           !.calls = w1.calls \o <<Call("glIsTexture", w1.handle)>>],
          pushed |-> FALSE]
    ELSE EnableTail(t, [w1 EXCEPT !.calls = w1.calls \o <<Call("glIsTexture", w1.handle)>>], cur)

\* The names the driver still knows when an activation starts: none of
\* them if the rendering context was lost or replaced since they were handed
\* out (lost), which is what the glIsTexture checks of _enable are for.
KnownNames(glT, lost) == IF lost THEN {} ELSE glT

\* Texture._enable.  ext3D, F32, F16 are the answers of ext_available for
\* 'GL_texture_3D', 'texture_float' and 'texture_half_float'; genOk tells
\* whether glGenTextures hands out a name, delOk whether glDeleteTextures
\* returns normally.  The result carries the pending description left.
EnableResult(t, ext3D, F32, F16, genOk, delOk, lost) ==
    LET w0 == Work(handle[t], pending_params[t], KnownNames(glTextures, lost),
                   glDeleted, nextName, "none", "none", <<>>)
        cur == ENABLE_QUEUE[target[t]]
        keep == pending_data[t]
    IN  IF handle[t] < 0
        THEN [w |-> [w0 EXCEPT !.path = "sticky"], pushed |-> FALSE, pending |-> keep]
        ELSE IF target[t] = T3D /\ ~ext3D
        THEN [w |-> [w0 EXCEPT !.handle = -1, !.path = "nocap"], pushed |-> FALSE,
              pending |-> keep]
        ELSE IF pending_data[t] # <<>>
        THEN AfterPending(t, ProcessPending(t, pending_data[t][1], w0, F32, F16,
                                            genOk, delOk), cur)
             @@ [pending |-> <<>>]
        ELSE EnableTail(t, w0, cur) @@ [pending |-> keep]


\* Texture._enable, entered through GLObject.__enter__.  An activation that
\* raises does not enter the `with` block.
Activate(t, ext3D, F32, F16, genOk, delOk, lost) ==
    LET r == EnableResult(t, ext3D, F32, F16, genOk, delOk, lost)
        ok == r.w.raised = "none"
        en == CountCall(r.w.calls, "glEnable")
    IN
    /\ t \notin active
    /\ r.w.next <= MaxName + 1
    /\ handle' = [handle EXCEPT ![t] = r.w.handle]
    /\ pending_data' = [pending_data EXCEPT ![t] = r.pending]
    /\ pending_params' = [pending_params EXCEPT ![t] = r.w.pparams]
    /\ glTextures' = r.w.glT
    /\ glDeleted' = r.w.glD
    /\ nextName' = r.w.next
    /\ ENABLE_QUEUE' = IF r.pushed
                       THEN [ENABLE_QUEUE EXCEPT ![target[t]] = PushCount(@)]
                       ELSE ENABLE_QUEUE
    /\ active' = IF ok THEN active \cup {t} ELSE active
    /\ last' = Last("enable", t, r.w.raised, r.w.path, r.w.calls)
    /\ phase' = IF ~ok THEN phase
                ELSE IF active = {} \/ phase = "up" THEN "up" ELSE "mixed"
    /\ nEnable' = IF ~ok THEN nEnable
                  ELSE IF active = {} THEN en
                  ELSE IF phase = "up" THEN nEnable + en ELSE 0
    /\ nDisable' = IF ~ok THEN nDisable ELSE 0
    /\ capFailed' = IF r.w.path = "nocap" THEN capFailed \cup {t} ELSE capFailed
    /\ consumed' = IF pending_data[t] # <<>> /\ r.pending = <<>>
                   THEN [consumed EXCEPT ![t] =
                            IF pending_data[t][1].hasData THEN <<>>
                            ELSE <<StorageArgs(texture_shape[t],
                                               pending_data[t][1].level,
                                               pending_data[t][1].format)>>]
                   ELSE consumed
    /\ LET before == [u \in Tex |->
                        IF lost THEN Held(NoStorage, NoParams)
                        ELSE Held(glStorage[u], glParams[u])]
           after == DriverAfter(r.w.calls, before[t], Ndim(target[t]))
           now == [before EXCEPT ![t] = IF r.w.handle > 0 THEN after
                                        ELSE Held(NoStorage, NoParams)]
       IN  /\ glStorage' = [u \in Tex |-> now[u].storage]
           /\ glParams' = [u \in Tex |-> now[u].params]
    /\ UNCHANGED <<target, unit, texture_shape, texture_params, call>>

\* _RawTexture._disable: the driver calls.
DisableCalls(cur, u) ==
    (IF u >= 0 THEN <<Call("glActiveTexture", u)>> ELSE <<>>)
    \o <<Call("glBindTexture", 0), Call("glActiveTexture", 0)>>
    \o PopCalls(cur)

\* _RawTexture._disable, entered through GLObject.__exit__.
Deactivate(t) ==
    LET cur == ENABLE_QUEUE[target[t]]
        calls == DisableCalls(cur, unit[t])
        tracked == phase \in {"up", "down"}
    IN
    /\ t \in active
    /\ unit' = [unit EXCEPT ![t] = -1]
    /\ ENABLE_QUEUE' = [ENABLE_QUEUE EXCEPT ![target[t]] = PopCount(cur)]
    /\ active' = active \ {t}
    /\ last' = Last("disable", t, "none", "unbound", calls)
    /\ phase' = IF tracked THEN "down" ELSE "mixed"
    /\ nEnable' = IF tracked THEN nEnable ELSE 0
    /\ nDisable' = IF tracked THEN nDisable + CountCall(calls, "glDisable") ELSE 0
    /\ UNCHANGED <<target, handle, pending_data, texture_shape, texture_params,
                   pending_params, glTextures, glDeleted, nextName, capFailed,
                   consumed, glStorage, glParams, call>>

-----------------------------------------------------------------------------
(* Inputs offered to the operations *)

Complex64 == DT("complex", 64)

\* Shapes for a target of rank n: the base shape, a smaller one, the base
\* shape with three channels, and with five channels (which has no format).
Base(n) == [i \in 1..n |-> 4]
Small(n) == [i \in 1..n |-> 2]
WithChannels(n, c) == [i \in 1..(n + 1) |-> IF i <= n THEN 4 ELSE c]
GoodShapes(n) == {Base(n), Small(n), WithChannels(n, 3), WithChannels(n, 5)}
Ones(n) == [i \in 1..n |-> 1]

DataArgs(d, sh, off, lv, fm, cl) ==
    [dtype |-> d, shape |-> sh, offset |-> off, level |-> lv, format |-> fm,
     clim |-> cl]

\* The calls of set_data offered: the plain call for every shape, and the
\* plain call on the base shape changed in one argument at a time, to a
\* value the call accepts and to one it rejects.
DataInputs(tg) ==
    LET n == Ndim(tg) IN
    {DataArgs(Uint8, sh, <<>>, 0, "None", <<>>) : sh \in GoodShapes(n)}
    \cup {DataArgs(d, Base(n), <<>>, 0, "None", <<>>) : d \in {Float32, Complex64}}
    \cup {DataArgs(Uint8, sh, Ones(n), 0, "None", <<>>) : sh \in {Base(n), Small(n)}}
    \cup {DataArgs(Uint8, Base(n), <<>>, lv, "None", <<>>) : lv \in {MaxLevel}}
    \cup {DataArgs(Uint8, sh, <<>>, 0, "GL_RGB", <<>>) :
            sh \in {WithChannels(n, 3), WithChannels(n, 5)}}
    \cup {DataArgs(Uint8, Base(n), <<>>, 0, "None", <<0, 255>>)}
    \cup {DataArgs(Uint8, [i \in 1..(n - 1) |-> 4], <<>>, 0, "None", <<>>),
          DataArgs(Uint8, Base(n), <<1>>, 0, "None", <<>>),
          DataArgs(Uint8, Base(n), <<>>, -1, "None", <<>>),
          DataArgs(Uint8, Base(n), <<>>, 0, "GL_BGR", <<>>),
          DataArgs(Uint8, Base(n), <<>>, 0, "None", <<0, 1, 2>>)}

\* The calls of set_storage offered, chosen the same way.
StorageInputs(tg) ==
    LET n == Ndim(tg) IN
    {StorageArgs(sh, 0, "None") : sh \in GoodShapes(n)}
    \cup {StorageArgs(Base(n), lv, "None") : lv \in {MaxLevel}}
    \cup {StorageArgs(sh, 0, "GL_RGB") : sh \in {Base(n), WithChannels(n, 5)}}
    \cup {StorageArgs([i \in 1..(n - 1) |-> 4], 0, "None"),
          StorageArgs([i \in 1..n |-> 0], 0, "None"),
          StorageArgs(Base(n), -1, "None"),
          StorageArgs(Base(n), 0, "GL_BGR")}

\* The texture unit offered to Texture.__call__.
UnitInputs == {1}
ParamInputs == {<<"GL_TEXTURE_MIN_FILTER", "GL_NEAREST">>}

\* What the driver and ext_available answer during one activation: all
\* succeed, or exactly one of them does not.
Env(ext3D, F32, F16, genOk, delOk, lost) ==
    [ext3D |-> ext3D, F32 |-> F32, F16 |-> F16, genOk |-> genOk, delOk |-> delOk,
     lost |-> lost]
SteadyEnvInputs ==
    {Env(TRUE, TRUE, TRUE, TRUE, TRUE, FALSE), Env(FALSE, TRUE, TRUE, TRUE, TRUE, FALSE),
     Env(TRUE, FALSE, FALSE, TRUE, TRUE, FALSE)}
\* The same, and those under which glGenTextures hands out no name,
\* glDeleteTextures raises, or the rendering context was lost since the
\* last activation.
EnvInputs ==
    SteadyEnvInputs
    \cup {Env(TRUE, TRUE, TRUE, FALSE, TRUE, FALSE), Env(TRUE, TRUE, TRUE, TRUE, FALSE, FALSE),
          Env(TRUE, TRUE, TRUE, TRUE, TRUE, TRUE)}

\* `with texture:` under the answers e; set_data and set_storage with the
\* arguments a.
Enter(t, e) == Activate(t, e.ext3D, e.F32, e.F16, e.genOk, e.delOk, e.lost)
SetDataWith(t, a) == SetData(t, a.dtype, a.shape, a.offset, a.level, a.format, a.clim)
SetStorageWith(t, a) == SetStorage(t, a.shape, a.level, a.format)

-----------------------------------------------------------------------------
(* Specifications *)

\* No utility call is in progress.
NoCall == [fn |-> "none", done |-> TRUE]

InitFields ==
    /\ handle = [t \in Tex |-> 0]
    /\ unit = [t \in Tex |-> -1]
    /\ pending_data = [t \in Tex |-> <<>>]
    /\ texture_shape = [t \in Tex |-> <<>>]
    /\ texture_params = [t \in Tex |-> DefaultParams]
    /\ pending_params = [t \in Tex |-> DefaultParams]
    /\ ENABLE_QUEUE = [e \in Targets |-> 0]
    /\ glTextures = {}
    /\ glDeleted = {}
    /\ nextName = 1
    /\ active = {}
    /\ last = Last("init", 0, "none", "none", <<>>)
    /\ phase = "idle"
    /\ nEnable = 0
    /\ nDisable = 0
    /\ capFailed = {}
    /\ consumed = [t \in Tex |-> <<>>]
    /\ glStorage = [t \in Tex |-> NoStorage]
    /\ glParams = [t \in Tex |-> NoParams]

\* One texture, of either target, constructed without data.
Init ==
    /\ target \in {f \in [Tex -> Targets] : \A t \in Tex \ MainTex : f[t] = T2D}
    /\ InitFields
    /\ call = NoCall

\* The life of one texture's data in one rendering context whose driver
\* calls succeed: descriptions of every kind offered, accepted and rejected,
\* activation with and without the capabilities, deactivation and deletion.
\* set_parameter and __call__ write only _pending_params, _texture_params
\* and _unit, which no branch of the other operations reads; they, the
\* failures of glGenTextures and glDeleteTextures and the loss of the
\* context are left to SpecAll.
Next ==
    \E t \in MainTex :
        \/ \E a \in DataInputs(target[t]) : SetDataWith(t, a)
        \/ \E a \in StorageInputs(target[t]) : SetStorageWith(t, a)
        \/ \E e \in SteadyEnvInputs : Enter(t, e)
        \/ Deactivate(t)
        \/ Delete(t, TRUE)

Spec == Init /\ [][Next]_vars

\* Every operation of one texture, across losses of the rendering context,
\* with fewer descriptions offered: data of the base shape with and without
\* channels, with an explicit offset, and storage of the base shape.
LeanDataInputs(tg) ==
    LET n == Ndim(tg) IN
    {DataArgs(Uint8, sh, <<>>, 0, "None", <<>>) : sh \in {Base(n), WithChannels(n, 3)}}
    \cup {DataArgs(Uint8, Base(n), Ones(n), 0, "None", <<>>)}
LeanStorageInputs(tg) == {StorageArgs(Base(Ndim(tg)), 0, "None")}

NextAll ==
    \E t \in MainTex :
        \/ \E u \in UnitInputs : CallUnit(t, u)
        \/ \E pv \in ParamInputs : SetParameter(t, pv[1], pv[2])
        \/ \E a \in LeanDataInputs(target[t]) : SetDataWith(t, a)
        \/ \E a \in LeanStorageInputs(target[t]) : SetStorageWith(t, a)
        \/ \E e \in EnvInputs : Enter(t, e)
        \/ Deactivate(t)
        \/ \E delOk \in BOOLEAN : Delete(t, delOk)

SpecAll == Init /\ [][NextAll]_vars

\* Several textures of the 2-D target sharing ENABLE_QUEUE.
InitShared ==
    /\ target = [t \in Tex |-> T2D]
    /\ InitFields
    /\ call = NoCall

SharedEnvInputs ==
    {Env(TRUE, TRUE, TRUE, TRUE, TRUE, FALSE), Env(TRUE, TRUE, TRUE, FALSE, TRUE, FALSE)}

NextShared ==
    \E t \in Tex :
        \/ SetDataWith(t, DataArgs(Uint8, Base(Ndim(target[t])), <<>>, 0, "None", <<>>))
        \/ \E e \in SharedEnvInputs : Enter(t, e)
        \/ Deactivate(t)

SpecShared == InitShared /\ [][NextShared]_vars

\* The utility functions, each applied once to arguments drawn when the
\* behaviour starts; no texture operation takes place.
\* Element kinds: bool, the three uploadable kinds, a wider float, signed
\* and unsigned integers, and a kind convert_data does not recognize.
UtilDtypes ==
    {DT("bool", 8), Uint8, DT("uint", 16), DT("int", 8), DT("int", 16),
     Float16, Float32, DT("float", 64), Complex64}
\* Contrast limits: none, the unit interval, the byte range, a pair whose
\* two values are equal, and one with a negative minimum.
UtilClims == {<<>>, <<0, 1>>, <<0, 255>>, <<5, 5>>, <<-1, 1>>}
\* Shapes of every rank up to MaxRank whose last size is 1..MaxChannels or
\* 4, and a target get_format does not know.
MaxRank == 4
MaxChannels == 5
TCube == "GL_TEXTURE_CUBE_MAP"
UtilShapes ==
    {[i \in 1..n |-> IF i < n THEN 4 ELSE c] : n \in 1..MaxRank, c \in 1..MaxChannels}
UtilTargets == Targets \cup {TCube}

ConvertCall(d, clim, F32, F16) ==
    [fn |-> "convert_data", done |-> FALSE, dtype |-> d, clim |-> clim,
     F32 |-> F32, F16 |-> F16, result |-> <<>>]
FormatCall(shape, tg) ==
    [fn |-> "get_format", done |-> FALSE, shape |-> shape, target |-> tg,
     result |-> <<>>]

InitUtil ==
    /\ target = [t \in Tex |-> T2D]
    /\ InitFields
    /\ call \in {ConvertCall(d, cl, F32, F16) :
                    d \in UtilDtypes, cl \in UtilClims, F32 \in BOOLEAN, F16 \in BOOLEAN}
               \cup {FormatCall(sh, tg) : sh \in UtilShapes, tg \in UtilTargets}

\* The texture objects are not touched by a utility call.
TexturesUnchanged ==
    UNCHANGED <<target, handle, unit, pending_data, texture_shape, texture_params,
                pending_params, ENABLE_QUEUE, glTextures, glDeleted, nextName,
                active, last, phase, nEnable, nDisable, capFailed, consumed,
                glStorage, glParams>>

\* convert_data(data, clim) runs to its return or its exception.
ApplyConvert ==
    /\ call.fn = "convert_data"
    /\ ~call.done
    /\ call' = [call EXCEPT
                  !.done = TRUE,
                  !.result = <<convert_data(call.dtype, call.clim, call.F32, call.F16)>>]
    /\ TexturesUnchanged

\* get_format(shape, target) runs to its return or its exception.
ApplyFormat ==
    /\ call.fn = "get_format"
    /\ ~call.done
    /\ call' = [call EXCEPT !.done = TRUE,
                            !.result = <<get_format(call.shape, call.target)>>]
    /\ TexturesUnchanged

NextUtil == ApplyConvert \/ ApplyFormat

SpecUtil == InitUtil /\ [][NextUtil]_vars

-----------------------------------------------------------------------------
(* Properties.  In a step, the unprimed fields are those before the        *)
(* operation and last' is the record of the operation and of the driver    *)
(* calls it issued.                                                        *)

\* The description pending for t was recorded by set_data's fast path: data
\* with an all-zero offset (no explicit all-zero offset is offered).
FastPending(t) ==
    /\ pending_data[t] # <<>>
    /\ pending_data[t][1].hasData
    /\ pending_data[t][1].offset = Zeros(Ndim(target[t]))

\* The calls cs delete or create a texture or transfer a full image.
Reallocates(cs) ==
    HasCall(cs, "glDeleteTextures") \/ HasCall(cs, "glGenTextures")
        \/ HasCall(cs, "glTexImage")

\* The calls cs hold a partial update, and every bind before it is of name h.
UpdatesOn(cs, h) ==
    \E i \in 1..Len(cs) :
        /\ cs[i].f = "glTexSubImage"
        /\ \E j \in 1..(i - 1) : cs[j].f = "glBindTexture"
        /\ \A j \in 1..(i - 1) : cs[j].f = "glBindTexture" => cs[j].a = h

\* The capability the target of t needs is available under the answers e.
CapabilityOk(t, e) == target[t] = T3D => e.ext3D

\* The description pending for t converts and has a format under e.
Processable(t, e) ==
    LET p == pending_data[t][1] IN
    /\ p.hasData => convert_data(p.dtype, p.clim, e.F32, e.F16).raised = "none"
    /\ p.hasData \/ texture_shape[t] # <<>>
    /\ p.format = "None" =>
          ~IsError(get_format(IF p.hasData THEN p.shape ELSE texture_shape[t],
                              target[t]))

\* The step is an activation of t; it is one under the answers e.
Activated(t) == last'.op = "enable" /\ last'.tex = t
Entered(t, e) == last'.op = "enable" /\ last'.tex = t /\ Enter(t, e)

\* C1 as stated: once set_data took the fast path (no offset, shape equal to
\* the recorded shape, handle > 0), the next activation issues a partial
\* update on the existing handle and no delete, create or full upload.
C1_Original ==
    [][\A t \in Tex : (FastPending(t) /\ Activated(t)) => \A e \in EnvInputs :
          Entered(t, e) =>
              UpdatesOn(last'.calls, handle[t]) /\ ~Reallocates(last'.calls)]_vars

\* C1 as amended: the next activation after a fast-path set_data never
\* deletes, creates or uploads in full; it issues the partial update on the
\* existing handle whenever that handle is still valid for the driver, the
\* capability is available and the data converts and has a format, and in
\* every other case it raises or marks the texture errored without a call.
C1_FastPathUpdates ==
    [][\A t \in Tex : (FastPending(t) /\ Activated(t)) => \A e \in EnvInputs :
          Entered(t, e) =>
              /\ ~Reallocates(last'.calls)
              /\ \/ /\ UpdatesOn(last'.calls, handle[t])
                    /\ last'.raised = "none"
                    /\ handle'[t] = handle[t]
                 \/ last'.raised # "none"
                 \/ handle'[t] < 0 /\ last'.calls = <<>>
              /\ ( /\ handle[t] > 0
                   /\ handle[t] \in KnownNames(glTextures, e.lost)
                   /\ CapabilityOk(t, e)
                   /\ Processable(t, e) )
                 => UpdatesOn(last'.calls, handle[t]) /\ last'.raised = "none"]_vars

\* An activation that issued the partial update of a fast-path description.
C1_Witness ==
    /\ last.op = "enable"
    /\ last.raised = "none"
    /\ \E i \in 1..Len(last.calls) :
          /\ last.calls[i].f = "glTexSubImage"
          /\ last.calls[i].a.offset = Zeros(Ndim(target[last.tex]))

\* C2 as stated: after N activations followed by N deactivations of textures
\* of one target, the shared counter is 0 and the capability was enabled
\* exactly once and disabled exactly once, whatever state the textures are in.
C2_Claim ==
    (phase = "down" /\ active = {}) =>
        /\ ENABLE_QUEUE[T2D] = 0
        /\ nEnable = 1
        /\ nDisable = 1

\* C3 as stated: a texture errored by a capability failure and not given a
\* set_data or set_storage call since has no activation that issues a driver
\* call.
C3_Claim ==
    \A t \in Tex :
        (t \in capFailed /\ last.op = "enable" /\ last.tex = t) => last.calls = <<>>

Bookkeeping == {"call", "set_parameter", "set_data", "set_storage"}

\* C4: set_parameter, set_data, set_storage and __call__ issue no driver call
\* and leave the driver and the shared counter as they were; a step that
\* issues a driver call is an activation, a deactivation or a delete.
C4_BookkeepingIssuesNoCall ==
    [][/\ last'.op \in Bookkeeping =>
            /\ last'.calls = <<>>
            /\ UNCHANGED <<glTextures, glDeleted, nextName, ENABLE_QUEUE>>
       /\ last'.calls # <<>> => last'.op \in {"enable", "disable", "delete"}]_vars

\* set_parameter was called on a resident texture, and the parameter waits.
C4_Witness ==
    /\ last.op = "set_parameter"
    /\ handle[last.tex] > 0
    /\ pending_params[last.tex] # NoParams
    /\ last.calls = <<>>

\* C5 as stated: set_data with an array of a rank outside {ndim, ndim + 1}
\* raises and leaves handle, pending description, recorded shape and both
\* parameter sets as they were, in every state.
C5_Claim ==
    [][\A t \in Tex : \A a \in DataInputs(target[t]) :
          (Len(a.shape) \notin {Ndim(target[t]), Ndim(target[t]) + 1}
              /\ SetDataWith(t, a)) =>
              /\ last'.raised # "none"
              /\ UNCHANGED <<handle, pending_data, texture_shape, pending_params,
                             texture_params>>]_vars

\* The step is a set_storage call on t, which has a consumed description.
StoredAgain(t) == consumed[t] # <<>> /\ last'.op = "set_storage" /\ last'.tex = t

\* C6 as stated: set_storage called again with the shape, level and format
\* of the description an activation consumed records no pending description,
\* for every level and format.
C6_Original ==
    [][\A t \in Tex : StoredAgain(t) => \A a \in StorageInputs(target[t]) :
          (consumed[t] = <<a>> /\ SetStorageWith(t, a)) =>
              pending_data'[t] = <<>>]_vars

\* C6 as amended: set_storage called again with the shape, level and format
\* of the description an activation consumed records no pending description
\* when the level is 0, no format is given and the texture is not errored;
\* otherwise it records a new pending description.
C6_SameStorageIsNoop ==
    [][\A t \in Tex : StoredAgain(t) => \A a \in StorageInputs(target[t]) :
          (consumed[t] = <<a>> /\ SetStorageWith(t, a)) =>
              IF a.level = 0 /\ a.format = "None" /\ handle[t] >= 0
              THEN pending_data'[t] = <<>> /\ UNCHANGED <<handle, texture_shape>>
              ELSE pending_data'[t] # <<>> /\ last'.raised = "none"]_vars

\* The second set_storage call, on a resident texture, recorded nothing.
C6_Witness ==
    /\ last.op = "set_storage"
    /\ last.path = "noop"
    /\ consumed[last.tex] # <<>>
    /\ handle[last.tex] > 0
    /\ pending_data[last.tex] = <<>>

\* C7: delete() does not raise and leaves the handle 0; it calls the driver's
\* delete exactly when the handle was > 0; and no operation passes the driver's
\* delete a name that was passed to it before.
C7_DeleteSafe ==
    [][/\ \A t \in Tex : \A delOk \in BOOLEAN :
            Delete(t, delOk) =>
                /\ last'.raised = "none"
                /\ handle'[t] = 0
                /\ HasCall(last'.calls, "glDeleteTextures") <=> handle[t] > 0
       /\ \A i \in 1..Len(last'.calls) :
            last'.calls[i].f = "glDeleteTextures" =>
                last'.calls[i].a > 0 /\ last'.calls[i].a \notin glDeleted]_vars

\* A delete() during which the driver raised.
C7_Witness ==
    /\ last.op = "delete"
    /\ last.path = "swallowed"
    /\ handle[last.tex] = 0

\* Among the calls cs is a validity check of a name the driver, knowing the
\* names glT, does not accept.
FailedCheck(cs, glT) ==
    \E i \in 1..Len(cs) : cs[i].f = "glIsTexture" /\ cs[i].a \notin glT

\* C8 as stated: an activation during which the 3-D capability is
\* unavailable or the handle fails the driver's validity check returns
\* normally and leaves the handle negative.
C8_Original ==
    [][\A t \in Tex : \A e \in EnvInputs :
          (Entered(t, e) /\ (~CapabilityOk(t, e) \/ FailedCheck(last'.calls, glTextures'))) =>
              last'.raised = "none" /\ handle'[t] < 0]_vars

\* C8 as amended: an activation returns normally with the handle negative
\* when the 3-D capability is unavailable, and when the handle fails the
\* validity check after a full upload or allocation; when the handle fails
\* it on the partial-update path or with nothing pending, the activation
\* raises (ValueError, RuntimeError) and leaves the handle as it was.
C8_ErrorsAbsorbedAfterUpload ==
    [][\A t \in Tex : \A e \in EnvInputs :
          Entered(t, e) =>
              /\ ~CapabilityOk(t, e) =>
                    last'.raised = "none" /\ handle'[t] < 0 /\ last'.calls = <<>>
              /\ (FailedCheck(last'.calls, glTextures')
                    /\ HasCall(last'.calls, "glGenTextures")) =>
                    last'.raised = "none" /\ handle'[t] = -1
              /\ (FailedCheck(last'.calls, glTextures')
                    /\ ~HasCall(last'.calls, "glGenTextures")) =>
                    /\ last'.raised = (IF pending_data[t] # <<>> THEN "ValueError"
                                       ELSE "RuntimeError")
                    /\ handle'[t] = handle[t]]_vars

\* An activation whose new handle failed the check after the upload.
C8_Witness ==
    /\ last.op = "enable"
    /\ last.path = "invalid"
    /\ last.raised = "none"
    /\ handle[last.tex] = -1

\* The arguments a of set_data describe data of an unrecognized element kind
\* or, no format given, of a shape that maps to no format.
BadDescription(a, tg) ==
    \/ convert_prepare(a.dtype, a.clim, TRUE, TRUE).raised # "none"
    \/ a.format = "None" /\ IsError(get_format(a.shape, tg))

\* C9 as stated: set_data raises for a description of an unrecognized element
\* kind or of a shape without a format, and no activation raises while
\* converting the data or resolving the format of a pending description.
C9_Claim ==
    [][/\ \A t \in Tex : \A a \in DataInputs(target[t]) :
            (BadDescription(a, target[t]) /\ SetDataWith(t, a)) =>
                last'.raised # "none"
       /\ last'.op = "enable" =>
            last'.path \notin {"convert_error", "format_error"}]_vars

\* The entries of a dict of parameters.
Entries(m) == {<<p, m[p]>> : p \in {q \in Params : m[q] # "unset"}}

\* The driver functions of a full re-upload, in order, for a texture of
\* handle h and applied parameters m.
ReuploadOrder(h, m) ==
    (IF h > 0 THEN <<"glDeleteTextures">> ELSE <<>>)
    \o <<"glGenTextures", "glBindTexture", "glTexImage">>
    \o [i \in 1..Cardinality(Entries(m)) |-> "glTexParameter"]

\* C10 as stated: an activation that consumes a pending description without
\* offset issues delete (handle > 0 only), create, bind, exactly one upload
\* or allocate, then one parameter call per entry of the applied parameters,
\* and leaves the pending parameters empty.
C10_Claim ==
    [][\A t \in Tex : \A e \in EnvInputs :
          ( /\ Entered(t, e)
            /\ pending_data[t] # <<>>
            /\ pending_data[t][1].offset = <<>>
            /\ pending_data'[t] = <<>> ) =>
              LET cs == SelectSeq(last'.calls, LAMBDA c : c.f # "glPixelStorei")
                  want == ReuploadOrder(handle[t], texture_params[t])
              IN  /\ Len(cs) >= Len(want)
                  /\ \A i \in 1..Len(want) : cs[i].f = want[i]
                  /\ handle[t] > 0 => cs[1].a = handle[t]
                  /\ CountCall(cs, "glTexImage") = 1
                  /\ \A i \in 1..Len(cs) :
                        cs[i].f = "glTexImage" =>
                            cs[i].a.data = pending_data[t][1].hasData
                  /\ {cs[i].a : i \in {j \in 1..Len(cs) : cs[j].f = "glTexParameter"}}
                        = Entries(texture_params[t])
                  /\ pending_params'[t] = NoParams]_vars

\* C11 as stated: an activation that consumes a description recorded by
\* set_storage creates a handle, binds it and allocates storage with the
\* given format, or with the format inferred from the recorded shape, and
\* issues no data upload and no partial update.
C11_Claim ==
    [][\A t \in Tex : \A e \in EnvInputs :
          ( /\ Entered(t, e)
            /\ pending_data[t] # <<>>
            /\ ~pending_data[t][1].hasData
            /\ pending_data'[t] = <<>> ) =>
              LET cs == last'.calls
                  p == pending_data[t][1]
                  format == IF p.format # "None" THEN p.format
                            ELSE get_format(texture_shape[t], target[t])
              IN  /\ \E i, j, k \in 1..Len(cs) :
                        /\ i < j /\ j < k
                        /\ cs[i].f = "glGenTextures"
                        /\ cs[j].f = "glBindTexture" /\ cs[j].a = cs[i].a
                        /\ cs[k].f = "glTexImage"
                        /\ ~cs[k].a.data
                        /\ cs[k].a.format = format
                  /\ \A k \in 1..Len(cs) : cs[k].f = "glTexImage" => ~cs[k].a.data
                  /\ ~HasCall(cs, "glTexSubImage")]_vars

-----------------------------------------------------------------------------
(* Properties of the utility functions, under SpecUtil *)

\* convert_data has returned or raised on the arguments of `call`; its result.
Converts == call.fn = "convert_data" /\ call.done
ConvertResult == call.result[1]

\* The element kinds convert_data has a branch for.
SupportedKind(d) == d.kind \in {"bool", "uint", "int", "float"}

\* C12 as stated: for every supported element kind, every choice of contrast
\* limits (none or a pair) and every combination of the float16 / float32
\* capability answers, convert_data returns an array whose element kind is
\* uint8, or float16 only when float16 is supported, or float32 only when
\* float32 is supported.
C12_Claim ==
    (Converts /\ SupportedKind(call.dtype) /\ Len(call.clim) \in {0, 2}) =>
        /\ ConvertResult.raised = "none"
        /\ \/ ConvertResult.dtype = Uint8
           \/ ConvertResult.dtype = Float16 /\ call.F16
           \/ ConvertResult.dtype = Float32 /\ call.F32

FormatReturned == call.fn = "get_format" /\ call.done

\* The format of a number of channels.
ChannelFormat(c) ==
    IF c = 1 THEN "GL_LUMINANCE"
    ELSE IF c = 2 THEN "GL_LUMINANCE_ALPHA"
    ELSE IF c = 3 THEN "GL_RGB"
    ELSE "GL_RGBA"

\* C14: get_format(shape, target) returns the single-channel format when the
\* shape has exactly the rank of the target or a trailing size of 1, the
\* two-, three- and four-channel format for a trailing size of 2, 3 and 4,
\* for the 2-D and the 3-D target alike; for any other trailing size, rank
\* or target it raises.
C14_FormatFromShape ==
    FormatReturned =>
        LET n == Len(call.shape)
            r == call.result[1]
        IN  IF call.target \notin {T2D, T3D} THEN IsError(r)
            ELSE IF n = Ndim(call.target) THEN r = "GL_LUMINANCE"
            ELSE IF n = Ndim(call.target) + 1 /\ call.shape[n] \in 1..4
                THEN r = ChannelFormat(call.shape[n])
            ELSE IsError(r)

\* get_format was given the shape (4,4,3) for the 2-D target and returned
\* the three-channel format.
C14_Witness ==
    /\ FormatReturned
    /\ call.shape = <<4, 4, 3>>
    /\ call.target = T2D
    /\ call.result = <<"GL_RGB">>

\* C15: convert_data applied to uint8 data without contrast limits returns
\* its input: the same element kind, no operation applied to the values, the
\* caller's array itself and not written to, whatever the float capability
\* answers are.
C15_Uint8PassesThrough ==
    (Converts /\ call.dtype = Uint8 /\ call.clim = <<>>) =>
        /\ ConvertResult.raised = "none"
        /\ ConvertResult.dtype = Uint8
        /\ ConvertResult.ops = <<>>
        /\ ~ConvertResult.own
        /\ ~ModifiesInput(ConvertResult)

\* uint8 data without limits went through convert_data with neither float
\* kind supported.
C15_Witness ==
    /\ Converts
    /\ call.dtype = Uint8
    /\ call.clim = <<>>
    /\ ~call.F32
    /\ ~call.F16
    /\ ConvertResult.dtype = Uint8

-----------------------------------------------------------------------------
(* Properties of an errored texture and of the recorded shape *)

\* C16 as stated: while the handle of a texture is negative, no activation,
\* deactivation or delete of that texture issues a driver call.
C16_Claim ==
    [][\A t \in Tex :
          ( /\ handle[t] < 0
            /\ last'.tex = t
            /\ last'.op \in {"enable", "disable", "delete"} ) =>
              last'.calls = <<>>]_vars

\* The step is a set_data or set_storage call on t, found errored.
ResetStep(t) ==
    /\ handle[t] < 0
    /\ last'.tex = t
    /\ last'.op \in {"set_data", "set_storage"}

\* The last operation was a set_data or set_storage call on t that found it
\* errored and returned normally.
AfterReset(t) ==
    /\ last.tex = t
    /\ last.op \in {"set_data", "set_storage"}
    /\ last.reset
    /\ last.raised = "none"

\* The calls cs create a handle and transfer or allocate a full image on it,
\* with no delete and no partial update.
CreatesAndUploads(cs) ==
    /\ HasCall(cs, "glGenTextures")
    /\ HasCall(cs, "glTexImage")
    /\ ~HasCall(cs, "glDeleteTextures")
    /\ ~HasCall(cs, "glTexSubImage")

C18_Claim ==
    [][\A t \in Tex : \A e \in EnvInputs :
          ( /\ Entered(t, e)
            /\ FastPending(t)
            /\ HasCall(last'.calls, "glTexSubImage") ) =>
              LET p == pending_data[t][1] IN
              Take(p.shape, Ndim(target[t])) = glStorage[t][p.level]]_vars

-----------------------------------------------------------------------------
(* Properties of the parameters *)

C20_Claim ==
    [][\A t \in Tex :
          /\ \A a \in DataInputs(target[t]) :
                ( /\ last'.op = "set_data" /\ last'.tex = t
                  /\ SetDataWith(t, a)
                  /\ last'.raised = "none" ) => texture_shape'[t] = a.shape
          /\ \A a \in StorageInputs(target[t]) :
                ( /\ last'.op = "set_storage" /\ last'.tex = t
                  /\ SetStorageWith(t, a)
                  /\ last'.raised = "none" ) => texture_shape'[t] = a.shape]_vars

-----------------------------------------------------------------------------
(* Properties of the handle, of the transfers and of the texture unit *)

\* The last operation was a set_storage call on t that returned normally.
AfterStorage(t) ==
    /\ last.op = "set_storage"
    /\ last.tex = t
    /\ last.raised = "none"

\* C21 as stated, for the case that whatever description is pending has no
\* explicit offset, converts and has a format: after set_storage(shape)
\* returned normally, the next activation, run with the capability available
\* and the driver succeeding, leaves the handle > 0 with an image of that
\* size allocated on it, whatever operations came before the set_storage
\* call.
C21_Claim ==
    [][\A t \in Tex : (AfterStorage(t) /\ Activated(t)) => \A e \in EnvInputs :
          ( /\ Entered(t, e)
            /\ CapabilityOk(t, e) /\ e.genOk /\ e.delOk /\ ~e.lost
            /\ pending_data[t] # <<>> =>
                  (Processable(t, e) /\ pending_data[t][1].offset = <<>>) ) =>
              /\ handle'[t] > 0
              /\ \E lv \in 0..MaxLevel :
                    glStorage'[t][lv] = Take(texture_shape[t], Ndim(target[t]))]_vars

\* C22 as stated: in every reachable state, every name glGenTextures handed
\* out is the handle of a texture or has been passed to glDeleteTextures.
C22_Claim ==
    \A n \in 1..(nextName - 1) :
        n \in glDeleted \/ \E t \in Tex : handle[t] = n

\* The call c transfers an image: a full upload with data or a partial
\* update.
IsTransfer(c) ==
    \/ c.f = "glTexSubImage"
    \/ c.f = "glTexImage" /\ c.a.data

\* C23 as stated: every image transfer, full upload and partial update
\* alike, whose alignment a (the first of 4, 8, 2, 1 dividing the last size
\* of the data) is not 4 is preceded by setting the unpack alignment to a and
\* followed by restoring it to 4.
C23_Claim ==
    \A i \in 1..Len(last.calls) :
        IsTransfer(last.calls[i]) =>
            LET sh == last.calls[i].a.shape
                a == get_alignment(sh[Len(sh)])
            IN  a # 4 =>
                  /\ i > 1
                  /\ last.calls[i - 1] = Call("glPixelStorei", a)
                  /\ i < Len(last.calls)
                  /\ last.calls[i + 1] = Call("glPixelStorei", 4)

\* C24 as stated: an activation of a texture that was called with a unit
\* u >= 0 selects unit u before it issues any bind of a handle of the
\* texture, the bind done while the pending description is consumed
\* included, so that no bind of the activation lands on another unit.
C24_Claim ==
    (last.op = "enable" /\ unit[last.tex] >= 0) =>
        \A i \in 1..Len(last.calls) :
            (last.calls[i].f = "glBindTexture" /\ last.calls[i].a > 0) =>
                \E j \in 1..(i - 1) :
                    /\ last.calls[j].f = "glActiveTexture"
                    /\ last.calls[j].a = unit[last.tex]

====
